---- MODULE Spec2Model ----
(***************************************************************************)
(* Model of the weather-risk services of the Nasa-App repository:          *)
(*   lib/merra2_data_service.py  MERRA2DataService (grid-sample estimator, *)
(*                               orchestration, dummy-data fallback)       *)
(*   lib/weather_model.py        meteostat historical estimator            *)
(*                                                                         *)
(* Numbers are fixed point.  Temperatures, wind speeds and percentages are *)
(* kept in hundredths (x100); coordinates in 1e-4 degree; PRECTOT and QV2M *)
(* in 1e-4 of their unit.  All products below are exact in these units,    *)
(* except the square root of the wind speed, which is floored to 0.01 m/s. *)
(***************************************************************************)
EXTENDS Integers, Sequences, FiniteSets, TLC

VARIABLES
    pc,        \* "idle": no call in progress; "done": a call has ended
    service,   \* which get_weather_probabilities ran: "merra2" | "meteostat" | "none"
    query,     \* the arguments of the call: [lat, lon, date]
    provided,  \* what the data provider handed to the call
    ret,       \* the returned dict (NoValue when nothing was returned)
    exc,       \* the exception the call ended with ("none" when it returned)
    seedUsed,  \* the seed of the last fallback generator (-1: fallback not run)
    ncalls,    \* number of _fallback_probabilities calls so far (history)
    first      \* the first _fallback_probabilities call: its inputs, its result and
               \* the number of later calls with other inputs (history)

vars == <<pc, service, query, provided, ret, exc, seedUsed, ncalls, first>>

NoValue == [none |-> TRUE]

----------------------------------------------------------------------------
(* Units *)

\* x percent (or degrees, or m/s) in hundredths
Centi(x) == x * 100

Abs(x) == IF x < 0 THEN -x ELSE x

Max2(a, b) == IF b > a THEN b ELSE a
Min2(a, b) == IF b < a THEN b ELSE a

RECURSIVE ISqrtIn(_, _, _)
\* bisection, with lo * lo <= n < hi * hi
ISqrtIn(n, lo, hi) ==
    IF hi - lo <= 1 THEN lo
    ELSE LET mid == (lo + hi) \div 2
         IN IF mid * mid <= n THEN ISqrtIn(n, mid, hi) ELSE ISqrtIn(n, lo, mid)

\* floor of the square root, for 0 <= n < 46340 * 46340
ISqrt(n) == ISqrtIn(n, 0, 46340)

----------------------------------------------------------------------------
(* Calendar: datetime objects are <<year, month, day>> *)

IsLeap(y) == (y % 4 = 0 /\ y % 100 # 0) \/ y % 400 = 0

DaysInMonth(y, m) ==
    IF m = 2 THEN (IF IsLeap(y) THEN 29 ELSE 28)
    ELSE IF m \in {4, 6, 9, 11} THEN 30 ELSE 31

RECURSIVE DaysBefore(_, _)
DaysBefore(y, m) == IF m <= 1 THEN 0 ELSE DaysBefore(y, m - 1) + DaysInMonth(y, m - 1)

\* date.timetuple().tm_yday
TmYday(d) == DaysBefore(d[1], d[2]) + d[3]

\* datetime.strptime(s, "%Y-%m-%d") succeeds
WellFormed(d) == d[2] \in 1..12 /\ d[3] \in 1..DaysInMonth(d[1], d[2])

----------------------------------------------------------------------------
(* MERRA2DataService.calculate_weather_risks *)

RiskTypes == {"very_hot", "very_cold", "very_windy", "very_wet", "very_uncomfortable"}

KelvinOffsetCenti == 27315
HotThresholdC == 35
ColdThresholdC == 0
TempSlope == 5
WindThreshold == 10
WindSlope == 8
SecondsPerHour == 3600
WetSlope == 20
HumidityFactor == 1000
ComfortThreshold == 25
ComfortSlope == 3
RiskCap == 100

\* mutant of Clamp: the cap at 100 left out
ClampNoCap(x) == Max2(0, x)

\* max(0, min(100, x)) on hundredths of a percent
Clamp(x) == Max2(0, Min2(Centi(RiskCap), x))

\* mutant of TempC: the offset taken as 273
TempCWholeOffset(wd) == wd["T2M"] - 27300

\* temp_c = temp_k - 273.15
TempC(wd) == wd["T2M"] - KelvinOffsetCenti

\* np.sqrt(U10M**2 + V10M**2), floored to 0.01 m/s
WindSpeed(wd) == ISqrt((wd["U10M"] * wd["U10M"] + wd["V10M"] * wd["V10M"]) * 10000)

\* weather_data['PRECTOT'] * 3600, then * 20, in hundredths of a percent
WetRaw(wd) == (wd["PRECTOT"] * SecondsPerHour * WetSlope * 100) \div 10000

\* discomfort = temp_c + humidity * 1000
Discomfort(wd) == TempC(wd) + ((wd["QV2M"] * HumidityFactor * 100) \div 10000)

\* the variables a category is computed from
Needs(k) ==
    CASE k = "very_hot" -> {"T2M"}
      [] k = "very_cold" -> {"T2M"}
      [] k = "very_windy" -> {"U10M", "V10M"}
      [] k = "very_wet" -> {"PRECTOT"}
      [] k = "very_uncomfortable" -> {"QV2M", "T2M"}

Transfer(k, wd) ==
    CASE k = "very_hot" -> Clamp((TempC(wd) - Centi(HotThresholdC)) * TempSlope)
      [] k = "very_cold" -> Clamp((Centi(ColdThresholdC) - TempC(wd)) * TempSlope)
      [] k = "very_windy" -> Clamp((WindSpeed(wd) - Centi(WindThreshold)) * WindSlope)
      [] k = "very_wet" -> Clamp(WetRaw(wd))
      [] k = "very_uncomfortable" -> Clamp((Discomfort(wd) - Centi(ComfortThreshold)) * ComfortSlope)

\* the dict after the four `if ... in weather_data` blocks
ComputedRisks(wd) ==
    [k \in {r \in RiskTypes : Needs(r) \subseteq DOMAIN wd} |-> Transfer(k, wd)]

\* mutant of EnsureAllPresent: the loop left out
KeepComputed(risks) == risks

\* the dict after the loop that adds every missing category as 0.0
EnsureAllPresent(risks) ==
    [k \in RiskTypes |-> IF k \in DOMAIN risks THEN risks[k] ELSE 0]

calculate_weather_risks(wd) == EnsureAllPresent(ComputedRisks(wd))

----------------------------------------------------------------------------
(* MERRA2DataService._fallback_probabilities *)

\* mutant of FallbackSeed: each coordinate term truncated on its own
SeedFlooredSeparately(lat, lon, date) ==
    (Abs(lat * 1000) \div 10000) + (Abs(lon * 1000) \div 10000) + TmYday(date)

\* mutant of FallbackSeed: the seed also draws on a process-wide counter
SeedFromProcessState(lat, lon, date) ==
    ((Abs(lat * 1000) + Abs(lon * 1000) + TmYday(date) * 10000) \div 10000) + ncalls

\* seed = int(abs(lat * 1000) + abs(lon * 1000) + day_of_year), coordinates in
\* 1e-4 degree: the sum is formed first and truncated once
FallbackSeed(lat, lon, date) ==
    (Abs(lat * 1000) + Abs(lon * 1000) + TmYday(date) * 10000) \div 10000

\* np.random.default_rng(seed): a generator of its own, whose stream is a
\* function of the seed alone.  PCG64 is stood for by a 16-bit congruential
\* generator; RngState(seed, n) is its state at the n-th draw.
Lcg(s) == (s * 25173 + 13849) % 65536

RECURSIVE RngState(_, _)
RngState(seed, n) == IF n = 0 THEN seed % 65536 ELSE Lcg(RngState(seed, n - 1))

\* mutant of Uniform: the state divided by half its range
UniformHalfRange(lo, hi, s) == Centi(lo) + ((Centi(hi - lo) * s) \div 32768)

\* rng.uniform(lo, hi) from generator state s, in hundredths: lo <= x < hi
Uniform(lo, hi, s) == Centi(lo) + ((Centi(hi - lo) * s) \div 65536)

HotHigh == 50
ColdHigh == 50
WindyHigh == 40
WetHigh == 60
UncomfortableHigh == 45

\* the five draws, in the order the dict literal makes them
FallbackRisks(seed) ==
    [very_hot |-> Uniform(0, HotHigh, RngState(seed, 1)),
     very_cold |-> Uniform(0, ColdHigh, RngState(seed, 2)),
     very_windy |-> Uniform(0, WindyHigh, RngState(seed, 3)),
     very_wet |-> Uniform(0, WetHigh, RngState(seed, 4)),
     very_uncomfortable |-> Uniform(0, UncomfortableHigh, RngState(seed, 5))]

fallback_probabilities(lat, lon, date) ==
    [meta |-> [lat |-> lat, lon |-> lon, date |-> date,
               data_source |-> "fallback",
               note |-> "MERRA-2 data unavailable, using synthetic data"],
     probabilities |-> FallbackRisks(FallbackSeed(lat, lon, date))]

----------------------------------------------------------------------------
(* MERRA2DataService.get_weather_data / get_weather_probabilities *)

\* What the acquisition does: "data" (the dataset opened; sample holds the
\* variables found in it), "fail" (an exception inside get_weather_data, which
\* catches it), "raise" (an exception that leaves get_weather_data).
\* get_weather_data returns {} on "fail".
get_weather_data(prov) == IF prov.kind = "data" THEN prov.sample ELSE <<>>

\* the call's outcome: [ret, exc, seed]
merra2_get_weather_probabilities(lat, lon, date, prov) ==
    IF prov.kind = "raise"
    THEN [ret |-> fallback_probabilities(lat, lon, date), exc |-> "none",
          seed |-> FallbackSeed(lat, lon, date)]
    ELSE LET weather_data == get_weather_data(prov)
         IN IF DOMAIN weather_data = {}
            THEN [ret |-> fallback_probabilities(lat, lon, date), exc |-> "none",
                  seed |-> FallbackSeed(lat, lon, date)]
            ELSE [ret |-> [meta |-> [lat |-> lat, lon |-> lon, date |-> date,
                                    data_source |-> "MERRA-2",
                                    variables_used |-> DOMAIN weather_data],
                           raw_data |-> weather_data,
                           probabilities |-> calculate_weather_risks(weather_data)],
                  exc |-> "none", seed |-> -1]

----------------------------------------------------------------------------
(* weather_model.py: the meteostat historical estimator *)

\* A daily record is [md, tmin, tmax, prcp, wspd]: md is <<month, day>> of its
\* index; a measurement is <<v>>, or <<>> when missing (NaN in the frame).

RECURSIVE DropNa(_, _)
\* data[col].dropna(): the present values of a column, in order
DropNa(rows, col) ==
    IF rows = <<>> THEN <<>>
    ELSE rows[1][col] \o DropNa(Tail(rows), col)

RECURSIVE SumSeq(_)
SumSeq(xs) == IF xs = <<>> THEN 0 ELSE xs[1] + SumSeq(Tail(xs))

RECURSIVE SumSq(_)
SumSq(xs) == IF xs = <<>> THEN 0 ELSE xs[1] * xs[1] + SumSq(Tail(xs))

\* scipy.stats.norm.fit(xs): loc = xs.mean(), scale = sqrt(((xs - loc)**2).mean()).
\* Kept as the sufficient statistics; the mean of no values is NaN (numpy
\* warns and does not raise).
NormFit(xs) ==
    IF xs = <<>> THEN [nan |-> TRUE]
    ELSE [nan |-> FALSE, n |-> Len(xs), sum |-> SumSeq(xs), sumsq |-> SumSq(xs)]

\* scale = 0  <=>  n * sumsq = sum^2
ScaleIsZero(fit) == fit.n * fit.sumsq = fit.sum * fit.sum

\* np.around(np.clip(<tail of norm.cdf(threshold, loc, scale)>, 0, 1) * 100, 1).
\* norm.cdf is NaN for a NaN loc or scale and for scale = 0; NaN passes through
\* clip, * and around.  A defined value is kept as the term it is computed from.
TailProbability(side, threshold, fit) ==
    IF fit.nan \/ ScaleIsZero(fit) THEN [nan |-> TRUE]
    ELSE [nan |-> FALSE, side |-> side, threshold |-> threshold, fit |-> fit]

\* round half to even of num / den, den > 0, num >= 0 (np.around)
RoundHalfEven(num, den) ==
    LET q == num \div den
        r2 == 2 * (num % den)
    IN IF r2 > den \/ (r2 = den /\ q % 2 = 1) THEN q + 1 ELSE q

hot_threshold == 30
cold_threshold == 0
windspeed_threshold == 20
rainy_threshold == 1

\* rainy_days = [1 if rain_amount >= rainy_threshold else 0 for rain_amount in prcp]
RainyDays(prcp) == [i \in 1..Len(prcp) |-> IF prcp[i] >= rainy_threshold THEN 1 ELSE 0]

\* the call's outcome: [value, exc].  The three fits come first and do not
\* raise on an empty series; sum(rainy_days) / len(rainy_days) divides two ints.
probability_calculator(data) ==
    LET min_temp == DropNa(data, "tmin")
        max_temp == DropNa(data, "tmax")
        prcp == DropNa(data, "prcp")
        windspeed == DropNa(data, "wspd")
        rainy_days == RainyDays(prcp)
    IN IF Len(rainy_days) = 0
       THEN [value |-> <<>>, exc |-> "ZeroDivisionError"]
       ELSE [value |->
               <<TailProbability("upper", hot_threshold, NormFit(max_temp)),
                 TailProbability("lower", cold_threshold, NormFit(min_temp)),
                 \* in tenths of a percent
                 [nan |-> FALSE,
                  tenths |-> RoundHalfEven(SumSeq(rainy_days) * 1000, Len(rainy_days))],
                 TailProbability("upper", windspeed_threshold, NormFit(windspeed))>>,
             exc |-> "none"]

\* daily_data[(index.month == target_month) & (index.day == target_day)]
MatchingDates(rows, date) ==
    SelectSeq(rows, LAMBDA r : r.md = <<date[2], date[3]>>)

\* What get_meteostat_data does: "none" (no station: None), "data" (a frame,
\* possibly without rows), "raise" (an exception of the station lookup or fetch).
\* The call's outcome: [ret, exc].
meteostat_get_weather_probabilities(lat, lon, user_datetime, prov) ==
    IF ~WellFormed(user_datetime)
    THEN [ret |-> NoValue, exc |-> "ValueError"]
    ELSE IF prov.kind = "raise"
    THEN [ret |-> NoValue, exc |-> "ProviderError"]
    ELSE IF prov.kind = "none" \/ prov.rows = <<>>
    THEN [ret |-> [meta |-> [lat |-> lat, lon |-> lon, user_datetime |-> user_datetime,
                            data_source |-> "meteostat",
                            error |-> "No data available for this location"]],
          exc |-> "none"]
    ELSE LET matching_dates == MatchingDates(prov.rows, user_datetime)
             probs == probability_calculator(matching_dates)
         IN IF probs.exc # "none"
            THEN [ret |-> NoValue, exc |-> probs.exc]
            ELSE [ret |-> [meta |-> [lat |-> lat, lon |-> lon,
                                    user_datetime |-> user_datetime,
                                    target_month |-> user_datetime[2],
                                    target_day |-> user_datetime[3],
                                    historical_records_found |-> Len(matching_dates),
                                    data_source |-> "meteostat",
                                    hot_prob |-> probs.value[1],
                                    cold_prob |-> probs.value[2],
                                    too_rainy |-> probs.value[3],
                                    too_windy |-> probs.value[4]]],
                  exc |-> "none"]

----------------------------------------------------------------------------
(* Inputs *)

MaxRecords == 2
MaxCalls == 3

Lats == {-338600, 407006}
Lons == {-740005, 1512093}
\* a leap day, a summer day, day 366
Dates == {<<2024, 2, 29>>, <<2023, 7, 19>>, <<2024, 12, 31>>}
\* what strptime rejects
MalformedDates == {<<2023, 2, 29>>}

GridVars == {"T2M", "U10M", "V10M", "PRECTOT", "QV2M", "PS"}

\* -40 C, 0 C, 37 C, 45 C, 400 K (hundredths of a kelvin)
T2MValues == {23315, 27315, 31015, 31815, 40000}
U10MValues == {8, -15, 30}
V10MValues == {6, 0}
\* -0.001 (finite, below the scale), 0, 0.001, 0.01 kg/m2/s
PRECTOTValues == {-10, 0, 10, 100}
\* 0.005, 0.02 kg/kg
QV2MValues == {50, 200}
PSValues == {1013}

GridSampleOf(S, t, u, v, p, q, ps) ==
    [x \in S |-> CASE x = "T2M" -> t [] x = "U10M" -> u [] x = "V10M" -> v
                   [] x = "PRECTOT" -> p [] x = "QV2M" -> q [] x = "PS" -> ps]

Measurements(vals) == {<<>>} \cup {<<v>> : v \in vals}

DailyRecords ==
    [md : {<<7, 19>>, <<2, 29>>},
     tmin : Measurements({-5, 5}), tmax : Measurements({25, 35}),
     prcp : Measurements({0, 2}), wspd : Measurements({10, 30})]

ObservationSets == UNION {[1..n -> DailyRecords] : n \in 0..MaxRecords}

----------------------------------------------------------------------------
(* State machine *)

Init ==
    /\ pc = "idle"
    /\ service = "none"
    /\ query = NoValue
    /\ provided = NoValue
    /\ ret = NoValue
    /\ exc = "none"
    /\ seedUsed = -1
    /\ ncalls = 0
    /\ first = NoValue

\* MERRA2DataService.calculate_weather_risks, called on a grid sample
CalculateWeatherRisks ==
    /\ pc = "idle"
    /\ \E S \in SUBSET GridVars, t \in T2MValues, u \in U10MValues, v \in V10MValues,
          p \in PRECTOTValues, q \in QV2MValues, ps \in PSValues :
          LET wd == GridSampleOf(S, t, u, v, p, q, ps)
          IN /\ provided' = [kind |-> "data", sample |-> wd]
             /\ ret' = [probabilities |-> calculate_weather_risks(wd)]
    /\ pc' = "done"
    /\ service' = "calculate_weather_risks"
    /\ exc' = "none"
    /\ UNCHANGED <<query, seedUsed, ncalls, first>>

\* MERRA2DataService.get_weather_probabilities(lat, lon, date)
Merra2GetWeatherProbabilities ==
    /\ pc = "idle"
    /\ \E lat \in Lats, lon \in Lons, date \in Dates :
       \E prov \in {[kind |-> "fail"], [kind |-> "raise"]} \cup
                   {[kind |-> "data", sample |-> GridSampleOf(S, t, u, v, p, q, ps)] :
                      S \in SUBSET GridVars, t \in T2MValues, u \in U10MValues,
                      v \in V10MValues, p \in PRECTOTValues, q \in QV2MValues,
                      ps \in PSValues} :
          LET out == merra2_get_weather_probabilities(lat, lon, date, prov)
          IN /\ query' = [lat |-> lat, lon |-> lon, date |-> date]
             /\ provided' = prov
             /\ ret' = out.ret
             /\ exc' = out.exc
             /\ seedUsed' = out.seed
    /\ pc' = "done"
    /\ service' = "merra2"
    /\ UNCHANGED <<ncalls, first>>

\* weather_model.get_weather_probabilities(lat, lon, user_datetime)
MeteostatGetWeatherProbabilities ==
    /\ pc = "idle"
    /\ \E lat \in Lats, lon \in Lons, date \in Dates \cup MalformedDates :
       \E prov \in {[kind |-> "none"], [kind |-> "raise"]} \cup
                   {[kind |-> "data", rows |-> rows] : rows \in ObservationSets} :
          LET out == meteostat_get_weather_probabilities(lat, lon, date, prov)
          IN /\ query' = [lat |-> lat, lon |-> lon, date |-> date]
             /\ provided' = prov
             /\ ret' = out.ret
             /\ exc' = out.exc
    /\ pc' = "done"
    /\ service' = "meteostat"
    /\ UNCHANGED <<seedUsed, ncalls, first>>

\* One query per process (main): a call is made from the idle state only.
Next ==
    \/ MeteostatGetWeatherProbabilities
    \/ Merra2GetWeatherProbabilities
    \/ CalculateWeatherRisks

\* both services
Spec == Init /\ [][Next]_vars

NextMerra2 ==
    \/ CalculateWeatherRisks
    \/ Merra2GetWeatherProbabilities

\* MERRA2DataService alone
SpecMerra2 == Init /\ [][NextMerra2]_vars

\* MERRA2DataService._fallback_probabilities called again and again in one
\* process; ncalls and first record the history of the calls.
FallbackProbabilities ==
    /\ ncalls < MaxCalls
    /\ \E lat \in Lats, lon \in Lons, date \in Dates :
          LET out == fallback_probabilities(lat, lon, date)
              q == [lat |-> lat, lon |-> lon, date |-> date]
          IN /\ query' = q
             /\ ret' = out
             /\ seedUsed' = FallbackSeed(lat, lon, date)
             /\ first' = IF ncalls = 0 THEN [query |-> q, ret |-> out, others |-> 0]
                         ELSE IF q # first.query
                              THEN [first EXCEPT !.others = @ + 1]
                              ELSE first
    /\ ncalls' = ncalls + 1
    /\ pc' = "done"
    /\ service' = "fallback"
    /\ exc' = "none"
    /\ UNCHANGED provided

NextSynth == FallbackProbabilities

SpecSynth == Init /\ [][NextSynth]_vars

----------------------------------------------------------------------------
(* Properties *)

\* an orchestration call has ended
OrchestrationDone == pc = "done" /\ service \in {"merra2", "meteostat"}

\* the primary data provider raised or returned an empty result
ProviderFailed ==
    \/ provided.kind \in {"fail", "raise", "none"}
    \/ service = "merra2" /\ provided.kind = "data" /\ DOMAIN provided.sample = {}
    \/ service = "meteostat" /\ provided.kind = "data" /\ provided.rows = <<>>

\* calculate_weather_risks has produced ret.probabilities from provided.sample
GridRan ==
    /\ pc = "done"
    /\ \/ service = "calculate_weather_risks"
       \/ service = "merra2" /\ ret.meta.data_source = "MERRA-2"

\* _fallback_probabilities has produced ret inside an orchestration call
FallbackRan == pc = "done" /\ service = "merra2" /\ ret.meta.data_source = "fallback"

SumRisks(p) ==
    p.very_hot + p.very_cold + p.very_windy + p.very_wet + p.very_uncomfortable

\* C1: whenever the primary provider raises or returns empty, the envelope
\* returned by get_weather_probabilities is tagged "synthetic" and its
\* probabilities hold all five categories.
C1_FallbackIsSynthetic ==
    (OrchestrationDone /\ WellFormed(query.date) /\ ProviderFailed)
        => /\ exc = "none"
           /\ ret.meta.data_source = "synthetic"
           /\ "probabilities" \in DOMAIN ret
           /\ DOMAIN ret.probabilities = RiskTypes

\* C2: a call of get_weather_probabilities with valid input (coordinates and
\* a well-formed date) never ends by raising.
C2_NeverRaises ==
    (OrchestrationDone /\ WellFormed(query.date))
        => exc = "none"

\* C3: every returned envelope has meta.data_source equal to the primary
\* source name or "synthetic", and a probabilities RiskVector.
C3_EnvelopeWellFormed ==
    (OrchestrationDone /\ exc = "none")
        => /\ ret.meta.data_source \in {"MERRA-2", "meteostat", "synthetic"}
           /\ "probabilities" \in DOMAIN ret
           /\ DOMAIN ret.probabilities = RiskTypes

\* C4: every value calculate_weather_risks returns lies in [0, 100], whatever
\* variables are present and however extreme; at T2M = 400 K very_hot is 100.
C4_RisksBounded ==
    GridRan =>
        /\ \A k \in DOMAIN ret.probabilities :
              0 <= ret.probabilities[k] /\ ret.probabilities[k] <= 10000
        /\ ("T2M" \in DOMAIN provided.sample /\ provided.sample["T2M"] = 40000)
              => ret.probabilities["very_hot"] = 10000

C4_Witness ==
    /\ GridRan
    /\ "T2M" \in DOMAIN provided.sample
    /\ provided.sample["T2M"] = 40000
    /\ ret.probabilities["very_hot"] = 10000

\* C5: calculate_weather_risks returns exactly the five categories for every
\* sample, the empty and the partial ones included, and a category whose
\* variables are not all present is 0.
C5_AllCategoriesPresent ==
    GridRan =>
        LET have == DOMAIN provided.sample
            p == ret.probabilities
        IN /\ DOMAIN p = RiskTypes
           /\ "T2M" \notin have => p["very_hot"] = 0 /\ p["very_cold"] = 0
           /\ ("U10M" \notin have \/ "V10M" \notin have) => p["very_windy"] = 0
           /\ "PRECTOT" \notin have => p["very_wet"] = 0
           /\ ("QV2M" \notin have \/ "T2M" \notin have) => p["very_uncomfortable"] = 0

\* the empty sample: all five categories, each 0
C5_Witness ==
    /\ GridRan
    /\ DOMAIN provided.sample = {}
    /\ DOMAIN ret.probabilities = RiskTypes
    /\ \A k \in RiskTypes : ret.probabilities[k] = 0

C8_InsufficientDataIsRecoverable ==
    LET rows == MatchingDates(provided.rows, query.date)
    IN (/\ pc = "done" /\ service = "meteostat"
        /\ WellFormed(query.date)
        /\ provided.kind = "data"
        /\ \E col \in {"tmin", "tmax", "prcp", "wspd"} : DropNa(rows, col) = <<>>)
           => /\ exc = "none"
              /\ \A f \in {"hot_prob", "cold_prob", "too_rainy", "too_windy"} :
                    f \in DOMAIN ret.meta => ~ret.meta[f].nan

\* C9: with the needed variables present, calculate_weather_risks equals the
\* reference transfer functions with the fixed constants, and T2M = 310.15,
\* U10M = 8, V10M = 6, PRECTOT = 0.001 gives very_hot = 10.0,
\* very_windy = 0.0 and very_wet = 72.0.
C9_TransferFunctions ==
    GridRan =>
        LET wd == provided.sample
            have == DOMAIN wd
            p == ret.probabilities
            clamp(x) == IF x < 0 THEN 0 ELSE IF x > 10000 THEN 10000 ELSE x
        IN /\ "T2M" \in have =>
                /\ p["very_hot"] = clamp((wd["T2M"] - 27315 - 3500) * 5)
                /\ p["very_cold"] = clamp((0 - (wd["T2M"] - 27315)) * 5)
           /\ ("U10M" \in have /\ "V10M" \in have) =>
                LET sq == (wd["U10M"] * wd["U10M"] + wd["V10M"] * wd["V10M"]) * 10000
                    \* the wind speed in hundredths, rounded down
                    speed == CHOOSE r \in 0..5000 : r * r <= sq /\ sq < (r + 1) * (r + 1)
                IN p["very_windy"] = clamp((speed - 1000) * 8)
           /\ "PRECTOT" \in have => p["very_wet"] = clamp(wd["PRECTOT"] * 720)
           /\ ("QV2M" \in have /\ "T2M" \in have) =>
                p["very_uncomfortable"] =
                    clamp((wd["T2M"] - 27315 + wd["QV2M"] * 10 - 2500) * 3)
           /\ ({"T2M", "U10M", "V10M", "PRECTOT"} \subseteq have
               /\ wd["T2M"] = 31015 /\ wd["U10M"] = 8 /\ wd["V10M"] = 6
               /\ wd["PRECTOT"] = 10)
                => p["very_hot"] = 1000 /\ p["very_windy"] = 0 /\ p["very_wet"] = 7200

\* the concrete scenario, with its three values
C9_Witness ==
    /\ GridRan
    /\ {"T2M", "U10M", "V10M", "PRECTOT", "QV2M"} \subseteq DOMAIN provided.sample
    /\ provided.sample["T2M"] = 31015
    /\ provided.sample["U10M"] = 8
    /\ provided.sample["V10M"] = 6
    /\ provided.sample["PRECTOT"] = 10
    /\ provided.sample["QV2M"] = 200
    /\ ret.probabilities["very_hot"] = 1000
    /\ ret.probabilities["very_windy"] = 0
    /\ ret.probabilities["very_wet"] = 7200

\* C10 as stated: the seed is floor(|lat|*1000) + floor(|lon|*1000) +
\* day_of_year, each coordinate term floored on its own.
C10_SeedFlooredSeparately ==
    FallbackRan =>
        seedUsed = (Abs(query.lat) \div 10) + (Abs(query.lon) \div 10) + TmYday(query.date)

\* C10 (amended): the seed is floor(|lat|*1000 + |lon|*1000 + day_of_year):
\* the sum is floored once, so it is one more than the sum of the separately
\* floored terms when the two fractional parts add up to 1 or more.
C10_SeedFloorOfSum ==
    FallbackRan =>
        LET carry == IF (Abs(query.lat) % 10) + (Abs(query.lon) % 10) >= 10 THEN 1 ELSE 0
        IN seedUsed = (Abs(query.lat) \div 10) + (Abs(query.lon) \div 10)
                        + TmYday(query.date) + carry

\* fractional parts that add up to 1 or more
C10_Witness ==
    /\ FallbackRan
    /\ (Abs(query.lat) % 10) + (Abs(query.lon) % 10) >= 10
    /\ seedUsed = (Abs(query.lat) \div 10) + (Abs(query.lon) \div 10)
                     + TmYday(query.date) + 1

====
